---- MODULE Spec2Model ----
(***************************************************************************)
(* Model of 4.3.py, the 4:3 to 16:9 video converter.                       *)
(*                                                                         *)
(* One run of the script is a state machine: main cleans the argument,     *)
(* convert_video tests the input file, check_ffmpeg locates the tool       *)
(* (version query on the search path, then the local install, then         *)
(* download_ffmpeg), convert_video runs the conversion and main exits.     *)
(* Every blocking external call (subprocess.run, urlretrieve, extractall,  *)
(* rmtree/rename, remove) is one atomic step whose outcome is chosen by    *)
(* the environment; `calls` logs them in the order they are made.          *)
(*                                                                         *)
(* Paths are sequences of characters, each a string naming it.  print()    *)
(* of the path (line 183) and of the check and cross marks (lines 61, 72,  *)
(* 151, 155, 161) raises UnicodeEncodeError when sys.stdout cannot encode  *)
(* them; input() (lines 174, 191) raises EOFError at the end of stdin,     *)
(* UnicodeDecodeError on a line that does not decode and RuntimeError      *)
(* when a standard stream is missing.  An exception no handler catches     *)
(* ends the process with a traceback and exit status 1; text left in       *)
(* stdout's buffer that cannot be written when the interpreter shuts down  *)
(* turns every exit status into 120.  Signals (KeyboardInterrupt) are not  *)
(* modelled, and a run's text is taken to fit stdout's buffer.             *)
(***************************************************************************)
EXTENDS Naturals, Integers, Sequences, FiniteSets

VARIABLES
    pc,          \* position in the run
    platform,    \* platform.system()
    argv,        \* sys.argv[1:], << >> or << path >>
    inputExists, \* os.path.exists(input_path) at line 113
    input_path,  \* main's cleaned input path
    ffmpeg_exe,  \* check_ffmpeg's return value: "unset", "ffmpeg", "local", "None"
    verified,    \* executable references that answered a version query with status 0
    versionResult, \* outcome of the version query at line 88
    ffmpegDir,   \* <script_dir>/ffmpeg: "none", "noexe" or "exe" (get_ffmpeg_path() exists)
    prefixDirs,  \* the directories <script_dir>/ffmpeg-*: name -> "none", "noexe", "exe"
    stdoutDevice, \* what sys.stdout writes to, see StdoutDevices
    stdoutEncoding, \* encoding and error handler of sys.stdout
    stdin,       \* sys.stdin as input() finds it, see StdinKinds
    localLookup, \* os.path.exists(local_ffmpeg) at line 98: "none", "found", "missing"
    zipExists,   \* <script_dir>/ffmpeg.zip exists
    dlResult,    \* download_ffmpeg's return value: "pending", "True", "False"
    output_path, \* convert_video's output path
    command,     \* argument vector of the conversion child process
    childStatus, \* outcome of the conversion child process
    success,     \* convert_video's return value: "pending", "True", "False"
    uncaught,    \* exception that escaped every handler, or "none"
    exitCode,    \* process exit status, -1 while running
    calls        \* external operations performed so far, in order

vars == << pc, platform, argv, inputExists, input_path, ffmpeg_exe, verified,
           versionResult, ffmpegDir, prefixDirs, stdoutDevice, stdoutEncoding,
           stdin, localLookup,
           zipExists, dlResult, output_path, command, childStatus, success, uncaught,
           exitCode, calls >>

----------------------------------------------------------------------------
(* Bounds and input alphabets *)

MaxLen == 4

\* U+00E9 is e-acute; U+DCFF is a lone surrogate, what an undecodable byte of
\* the command line becomes
Chars == {"a", ".", "/", "\\", "\"", "'", "U+00E9", "U+DCFF"}

Platforms == {"Windows", "Linux", "Darwin"}

\* Encodings (with error handler) of sys.stdout, one of each class: which of
\* U+00E9, the check mark U+2713, the cross mark U+2717 and a lone surrogate
\* it encodes.  A codec that encodes U+2717 encodes every character that is
\* not a surrogate; the handlers replace, ignore, backslashreplace and
\* xmlcharrefreplace encode everything, as utf-8:surrogateescape does for the
\* characters here; "undefined" encodes nothing, ASCII included.
Encodings ==
    { "ascii", "ascii:surrogateescape",
      "cp1252", "cp1252:surrogateescape",
      "shift_jis_2004", "shift_jis_2004:surrogateescape",
      "utf-8", "utf-8:surrogateescape",
      "undefined" }

\* What sys.stdout writes to.  "accepts": every write succeeds.  "none":
\* sys.stdout is None (file descriptor 1 closed), print() does nothing and
\* input() raises RuntimeError.  "fails_at_write": an unbuffered stream whose
\* device refuses the write (full disk, closed pipe), so the first print
\* raises OSError.  "fails_at_exit": a buffered stream on such a device, the
\* prints succeed into the buffer and the flush at interpreter shutdown
\* fails, which makes the exit status 120.
StdoutDevices == {"accepts", "none", "fails_at_write", "fails_at_exit"}

\* sys.stdin as input() finds it: a line can be read; end of file (EOFError);
\* sys.stdin or sys.stderr is None (RuntimeError); the line does not decode
\* (UnicodeDecodeError)
StdinKinds == {"lines", "eof", "closed", "undecodable"}

\* What a directory beside the script holds: absent, present without the
\* executable at the expected sub-path, present with it
DirStates == {"none", "noexe", "exe"}

\* Names of directories beside the script that start with "ffmpeg-"
DirNames == {"ffmpeg-0", "ffmpeg-7.0-essentials_build"}

RECURSIVE StringsUpTo(_)
StringsUpTo(n) ==
    IF n = 0 THEN {<< >>}
    ELSE LET shorter == StringsUpTo(n - 1)
         IN  shorter \cup {Append(s, c) : s \in {t \in shorter : Len(t) = n - 1}, c \in Chars}

Strings == StringsUpTo(MaxLen)

\* Arguments used when the whole run is explored.
PipelinePaths ==
    { <<"a", ".", "a">>,
      <<"\"", "a", ".", "a", "\"">>,
      <<"/", "a">>,
      <<"U+00E9", ".", "a">>,
      <<"U+DCFF", ".", "a">> }

----------------------------------------------------------------------------
(* Pure functions *)

\* str.lstrip(c) / str.rstrip(c) / str.strip(c) for a single character c
RECURSIVE LStrip(_, _)
LStrip(s, c) ==
    IF s # << >> /\ Head(s) = c THEN LStrip(Tail(s), c) ELSE s

RECURSIVE RStrip(_, _)
RStrip(s, c) ==
    IF s # << >> /\ s[Len(s)] = c THEN RStrip(SubSeq(s, 1, Len(s) - 1), c) ELSE s

Strip(s, c) == RStrip(LStrip(s, c), c)

\* line 181: input_path.strip('"').strip("'")
CleanPath(s) == Strip(Strip(s, "\""), "'")

\* str.rfind for one character, 1-based, 0 when absent (Python: 0-based, -1)
RFind(s, c) ==
    LET hits == {i \in 1..Len(s) : s[i] = c}
    IN  IF hits = {} THEN 0 ELSE CHOOSE i \in hits : \A j \in hits : j <= i

Max(a, b) == IF a >= b THEN a ELSE b

\* os.path.splitext: ntpath has sep "\\" and altsep "/", posixpath sep "/"
SepIndex(p, plat) ==
    IF plat = "Windows" THEN Max(RFind(p, "\\"), RFind(p, "/")) ELSE RFind(p, "/")

\* genericpath._splitext's loop: the first index in filenameIndex..dotIndex-1
\* holding a character other than the dot decides that the split is at dotIndex
RECURSIVE ScanStem(_, _, _)
ScanStem(p, filenameIndex, dotIndex) ==
    IF filenameIndex < dotIndex
    THEN IF p[filenameIndex] # "." THEN dotIndex
         ELSE ScanStem(p, filenameIndex + 1, dotIndex)
    ELSE 0

\* Index at which os.path.splitext splits p, 0 when it returns (p, "")
SplitIndex(p, plat) ==
    LET sepIndex == SepIndex(p, plat)
        dotIndex == RFind(p, ".")
    IN  IF dotIndex > sepIndex THEN ScanStem(p, sepIndex + 1, dotIndex) ELSE 0

\* os.path.splitext(p)[0] and os.path.splitext(p)[1]
SplitextRoot(p, plat) ==
    IF SplitIndex(p, plat) = 0 THEN p ELSE SubSeq(p, 1, SplitIndex(p, plat) - 1)

SplitextExt(p, plat) ==
    IF SplitIndex(p, plat) = 0 THEN << >> ELSE SubSeq(p, SplitIndex(p, plat), Len(p))

Suffix == <<"_", "1", "6", "-", "9">>

OutputPath_SuffixAfterExt(p, plat) ==
    SplitextRoot(p, plat) \o SplitextExt(p, plat) \o Suffix

\* lines 126-127: f"{filename}_16-9{ext}"
OutputPath(p, plat) == SplitextRoot(p, plat) \o Suffix \o SplitextExt(p, plat)

\* lines 14-22: get_ffmpeg_path(), as components below the script's directory
get_ffmpeg_path(plat) ==
    IF plat = "Windows" THEN <<"ffmpeg", "bin", "ffmpeg.exe">> ELSE <<"ffmpeg", "ffmpeg">>

\* The executable a reference names: the bare name (line 92) or the local path
ExePath(ref, plat) == IF ref = "local" THEN get_ffmpeg_path(plat) ELSE <<ref>>

\* lines 135-142: the conversion command
Command(exe, inp, out) ==
    [ exe |-> exe, input |-> inp, vf |-> "scale=1920:1080,setsar=1",
      audio |-> "copy", overwrite |-> TRUE, output |-> out ]

NoCommand == Command(<< >>, << >>, << >>)

\* line 193: sys.exit(0 if success else 1)
ExitStatus(ok) == IF ok = "True" THEN 0 ELSE 1

AutoInstall_AnyPlatform(plat) == TRUE

\* line 36: the platform download_ffmpeg installs on
AutoInstall(plat) == plat = "Windows"

\* Whether an encoding of sys.stdout encodes a character: U+00E9, a lone
\* surrogate, the check mark U+2713, the cross mark U+2717, or an ASCII one
Encodable(c, enc) ==
    CASE c = "U+00E9" -> enc \notin {"ascii", "ascii:surrogateescape", "undefined"}
      [] c = "U+DCFF" -> enc \in {"ascii:surrogateescape", "cp1252:surrogateescape",
                                  "shift_jis_2004:surrogateescape",
                                  "utf-8:surrogateescape"}
      [] c = "U+2713" -> enc \in {"shift_jis_2004", "shift_jis_2004:surrogateescape",
                                  "utf-8", "utf-8:surrogateescape"}
      [] c = "U+2717" -> enc \in {"utf-8", "utf-8:surrogateescape"}
      [] OTHER        -> enc # "undefined"

\* print(s): with sys.stdout None nothing is encoded or written
CanPrint(s, dev, enc) ==
    dev = "none" \/ \A i \in 1..Len(s) : Encodable(s[i], enc)

\* the check mark of lines 61 and 151
CanPrintCheck(dev, enc) == CanPrint(<<"U+2713">>, dev, enc)

\* the cross mark of lines 72, 155 and 161
CanPrintCross(dev, enc) == CanPrint(<<"U+2717">>, dev, enc)

\* lines 165-168: the exception main's first print raises, "none" when the
\* banner is printed
BannerError(dev, enc) ==
    IF dev = "fails_at_write" THEN "OSError"
    ELSE IF ~CanPrint(<<"=">>, dev, enc) THEN "UnicodeError"
    ELSE "none"

\* lines 174 and 191: the exception input() raises, "none" when it returns.
\* The streams are looked up before anything is read.
PromptError(dev, inp) ==
    IF dev = "none" \/ inp = "closed" THEN "RuntimeError"
    ELSE IF inp = "eof" THEN "EOFError"
    ELSE IF inp = "undecodable" THEN "UnicodeDecodeError"
    ELSE "none"

\* The status the process ends with when the interpreter leaves with status
\* code: 120 when the buffered text of stdout cannot be flushed
ProcessStatus(dev, code) == IF dev = "fails_at_exit" THEN 120 ELSE code

----------------------------------------------------------------------------
(* Initial states *)

EnvInit ==
    /\ pc = "start"
    /\ platform \in Platforms
    /\ input_path = << >>
    /\ ffmpeg_exe = "unset"
    /\ verified = {}
    /\ versionResult = "none"
    /\ stdoutDevice \in StdoutDevices
    /\ stdoutEncoding \in Encodings
    \* a stream that is missing or takes no write encodes nothing: one
    \* encoding stands for all; under "undefined" nothing reaches the device
    /\ stdoutDevice \in {"none", "fails_at_write"} => stdoutEncoding = "utf-8"
    /\ stdoutEncoding = "undefined" => stdoutDevice = "accepts"
    /\ localLookup = "none"
    /\ dlResult = "pending"
    /\ output_path = << >>
    /\ command = NoCommand
    /\ childStatus = "none"
    /\ success = "pending"
    /\ uncaught = "none"
    /\ exitCode = -1
    /\ calls = << >>

Init ==
    /\ EnvInit
    /\ stdin \in StdinKinds
    /\ zipExists \in BOOLEAN
    /\ inputExists \in BOOLEAN
    /\ argv \in {<< >>} \cup {<<s>> : s \in PipelinePaths}
    /\ ffmpegDir \in {"none", "noexe", "exe"}
    /\ prefixDirs \in [DirNames -> DirStates]

----------------------------------------------------------------------------
(* main, lines 164-181 *)

\* lines 165-175: banner; no argument, usage text, prompt and exit status 1.
\* An exception of the first print or of the prompt leaves main (traceback,
\* exit status 1)
MainUsage ==
    /\ pc = "start"
    /\ argv = << >>
    /\ uncaught' = IF BannerError(stdoutDevice, stdoutEncoding) # "none"
                   THEN BannerError(stdoutDevice, stdoutEncoding)
                   ELSE PromptError(stdoutDevice, stdin)
    /\ exitCode' = ProcessStatus(stdoutDevice, 1)
    /\ pc' = "done"
    /\ UNCHANGED << stdoutDevice, stdoutEncoding, stdin, localLookup, platform, argv, inputExists, input_path,
                    ffmpeg_exe, verified, versionResult, ffmpegDir, prefixDirs,
                    zipExists, dlResult, output_path, command, childStatus,
                    success, calls >>

\* lines 165-168 and 178-187: banner, take the argument, strip the quotes,
\* print the path and call convert_video; an exception of the first print
\* leaves main before the argument is read, and a path sys.stdout cannot
\* encode makes the print at line 183 raise UnicodeEncodeError, which leaves
\* main
MainClean ==
    /\ pc = "start"
    /\ argv # << >>
    /\ IF BannerError(stdoutDevice, stdoutEncoding) # "none"
       THEN /\ input_path' = input_path
            /\ uncaught' = BannerError(stdoutDevice, stdoutEncoding)
            /\ exitCode' = ProcessStatus(stdoutDevice, 1)
            /\ pc' = "done"
       ELSE /\ input_path' = CleanPath(argv[1])
            /\ IF CanPrint(CleanPath(argv[1]), stdoutDevice, stdoutEncoding)
               THEN /\ pc' = "convert"
                    /\ UNCHANGED << uncaught, exitCode >>
               ELSE /\ uncaught' = "UnicodeEncodeError"
                    /\ exitCode' = ProcessStatus(stdoutDevice, 1)
                    /\ pc' = "done"
    /\ UNCHANGED << stdoutDevice, stdoutEncoding, stdin, localLookup, platform, argv, inputExists,
                    ffmpeg_exe, verified, versionResult, ffmpegDir, prefixDirs,
                    zipExists, dlResult, output_path, command, childStatus,
                    success, calls >>

----------------------------------------------------------------------------
(* convert_video, lines 109-118 *)

ConvertVideoEntry_NoExistenceTest ==
    /\ pc = "convert"
    /\ pc' = "check"
    /\ UNCHANGED << stdoutDevice, stdoutEncoding, stdin, localLookup, platform, argv, inputExists, input_path, ffmpeg_exe, verified,
                    versionResult, ffmpegDir, prefixDirs, zipExists, dlResult,
                    output_path, command, childStatus, success, uncaught,
                    exitCode, calls >>

\* lines 113-118: a missing input file returns False, else check_ffmpeg is called
ConvertVideoEntry ==
    /\ pc = "convert"
    /\ IF ~inputExists
       THEN /\ success' = "False"
            /\ pc' = "exit"
       ELSE /\ success' = success
            /\ pc' = "check"
    /\ UNCHANGED << stdoutDevice, stdoutEncoding, stdin, localLookup, platform, argv, inputExists, input_path, ffmpeg_exe, verified,
                    versionResult, ffmpegDir, prefixDirs, zipExists, dlResult,
                    output_path, command, childStatus, uncaught, exitCode, calls >>

----------------------------------------------------------------------------
(* check_ffmpeg, lines 84-107 *)

\* Outcomes of subprocess.run(['ffmpeg', '-version'], check=True): status 0,
\* CalledProcessError, FileNotFoundError, PermissionError (a file named
\* ffmpeg that may not be executed), or an OSError of no subclass the
\* handler names (ENOEXEC, a file that is no executable format)
VersionOutcomes == {"ok", "nonzero", "notfound", "permission", "oserror"}

\* The exception class of an outcome that line 93 does not catch
VersionException(o) == IF o = "permission" THEN "PermissionError" ELSE "OSError"

\* lines 87-94: the except clause names CalledProcessError and
\* FileNotFoundError only; any other exception leaves check_ffmpeg,
\* convert_video (line 118 is outside its try) and main, and the interpreter
\* ends the process with a traceback and exit status 1
VersionQuery ==
    /\ pc = "check"
    /\ \E o \in VersionOutcomes :
        /\ versionResult' = o
        /\ calls' = Append(calls, "version")
        /\ CASE o = "ok" ->
                  /\ ffmpeg_exe' = "ffmpeg"
                  /\ verified' = verified \cup {"ffmpeg"}
                  /\ pc' = "run"
                  /\ UNCHANGED << uncaught, exitCode >>
             [] o \in {"nonzero", "notfound"} ->
                  /\ pc' = "local"
                  /\ UNCHANGED << ffmpeg_exe, verified, uncaught, exitCode >>
             [] o \in {"permission", "oserror"} ->
                  /\ uncaught' = VersionException(o)
                  /\ exitCode' = ProcessStatus(stdoutDevice, 1)
                  /\ pc' = "done"
                  /\ UNCHANGED << ffmpeg_exe, verified >>
    /\ UNCHANGED << stdoutDevice, stdoutEncoding, stdin, localLookup, platform, argv, inputExists, input_path, ffmpegDir, prefixDirs,
                    zipExists, dlResult, output_path, command, childStatus, success >>

\* lines 96-102: a local install that exists is returned, else download_ffmpeg
CheckLocal ==
    /\ pc = "local"
    /\ calls' = Append(calls, "local_lookup")
    /\ IF ffmpegDir = "exe"
       THEN /\ localLookup' = "found"
            /\ ffmpeg_exe' = "local"
            /\ pc' = "run"
       ELSE /\ localLookup' = "missing"
            /\ ffmpeg_exe' = ffmpeg_exe
            /\ pc' = "download"
    /\ UNCHANGED << stdoutDevice, stdoutEncoding, stdin, platform, argv, inputExists, input_path, verified, versionResult,
                    ffmpegDir, prefixDirs, zipExists, dlResult, output_path,
                    command, childStatus, success, uncaught, exitCode >>

----------------------------------------------------------------------------
(* download_ffmpeg, lines 24-75 *)

\* lines 71-75: an exception inside the try reaches the handler; its print
\* of the cross mark either succeeds and download_ffmpeg returns False, or
\* raises UnicodeEncodeError, which leaves download_ffmpeg, check_ffmpeg,
\* convert_video and main (traceback, exit status 1)
DownloadFails ==
    IF CanPrintCross(stdoutDevice, stdoutEncoding)
    THEN /\ dlResult' = "False"
         /\ pc' = "afterdl"
         /\ UNCHANGED << uncaught, exitCode >>
    ELSE /\ uncaught' = "UnicodeEncodeError"
         /\ exitCode' = ProcessStatus(stdoutDevice, 1)
         /\ pc' = "done"
         /\ dlResult' = dlResult

\* lines 64-69: no automatic install on this platform
DownloadUnsupported ==
    /\ pc = "download"
    /\ ~AutoInstall(platform)
    /\ dlResult' = "False"
    /\ pc' = "afterdl"
    /\ UNCHANGED << stdoutDevice, stdoutEncoding, stdin, localLookup, platform, argv, inputExists, input_path,
                    ffmpeg_exe, verified, versionResult, ffmpegDir, prefixDirs,
                    zipExists, output_path, command, childStatus, success,
                    uncaught, exitCode, calls >>

\* Outcomes of urlretrieve: the archive is written, nothing is written
\* (URLError), or an exception comes after the file was created
\* (ContentTooShortError, a connection reset, an error in the progress hook)
FetchOutcomes == {"ok", "error", "partial"}

FetchArchive_RetryOnError ==
    /\ pc = "download"
    /\ AutoInstall(platform)
    /\ Len(calls) < 6
    /\ \E o \in FetchOutcomes :
        /\ calls' = Append(calls, "fetch")
        /\ zipExists' = (zipExists \/ o # "error")
        /\ pc' = IF o = "ok" THEN "extract" ELSE "download"
    /\ UNCHANGED << stdoutDevice, stdoutEncoding, stdin, localLookup, platform, argv, inputExists, input_path,
                    ffmpeg_exe, verified, versionResult, ffmpegDir, prefixDirs,
                    dlResult, output_path, command, childStatus, success,
                    uncaught, exitCode >>

\* lines 36-42 and 71-75: fetch the archive to ffmpeg.zip
FetchArchive ==
    /\ pc = "download"
    /\ AutoInstall(platform)
    /\ \E o \in FetchOutcomes :
        /\ calls' = Append(calls, "fetch")
        /\ zipExists' = (zipExists \/ o # "error")
        /\ IF o = "ok"
           THEN /\ pc' = "extract"
                /\ UNCHANGED << dlResult, uncaught, exitCode >>
           ELSE DownloadFails
    /\ UNCHANGED << stdoutDevice, stdoutEncoding, stdin, localLookup, platform, argv, inputExists, input_path,
                    ffmpeg_exe, verified, versionResult, ffmpegDir, prefixDirs,
                    output_path, command, childStatus, success >>

\* Extracting over a directory: what was there stays, what the archive holds
\* is added
Merge(old, new) ==
    IF "exe" \in {old, new} THEN "exe"
    ELSE IF "noexe" \in {old, new} THEN "noexe"
    ELSE "none"

\* What extractall does with the archive: whether it raises (not a zip file,
\* a member failing its CRC), what it has written by then into directories
\* named ffmpeg-*, and what it has written into the directory ffmpeg itself
ArchiveKinds ==
    [ raises : BOOLEAN, dirs : [DirNames -> DirStates], direct : DirStates ]

\* lines 44-46 and 71-75: extract everything beside the script
ExtractArchive ==
    /\ pc = "extract"
    /\ \E a \in ArchiveKinds :
        /\ calls' = Append(calls, "extract")
        /\ prefixDirs' = [n \in DirNames |-> Merge(prefixDirs[n], a.dirs[n])]
        /\ ffmpegDir' = Merge(ffmpegDir, a.direct)
        /\ IF a.raises
           THEN DownloadFails
           ELSE /\ pc' = "rename"
                /\ UNCHANGED << dlResult, uncaught, exitCode >>
    /\ UNCHANGED << stdoutDevice, stdoutEncoding, stdin, localLookup, platform, argv, inputExists, input_path,
                    ffmpeg_exe, verified, versionResult, zipExists, output_path,
                    command, childStatus, success >>

\* Outcomes of lines 53-56: done, shutil.rmtree raises, os.rename raises
ReplaceOutcomes == {"ok", "rmtree_error", "rename_error"}

\* line 49: the directories named ffmpeg-* beside the script
extracted_folders == {n \in DirNames : prefixDirs[n] # "none"}

\* lines 48-56 and 71-75: os.listdir either raises (a script directory that
\* may not be listed), which reaches the handler before anything is replaced,
\* or lists the directory; then the first directory named ffmpeg-* (os.listdir
\* gives no order) replaces <script_dir>/ffmpeg, and with no such directory
\* nothing is done
NormalizeInstall ==
    /\ pc = "rename"
    /\ \/ /\ DownloadFails
          /\ UNCHANGED << ffmpegDir, prefixDirs, calls >>
       \/ /\ extracted_folders = {}
          /\ pc' = "rmzip"
          /\ UNCHANGED << ffmpegDir, prefixDirs, dlResult, uncaught, exitCode,
                          calls >>
       \/ \E d \in extracted_folders, o \in ReplaceOutcomes :
            /\ o = "rmtree_error" => ffmpegDir # "none"
            /\ calls' = Append(calls, "replace")
            /\ CASE o = "ok" ->
                      /\ ffmpegDir' = prefixDirs[d]
                      /\ prefixDirs' = [prefixDirs EXCEPT ![d] = "none"]
                      /\ pc' = "rmzip"
                      /\ UNCHANGED << dlResult, uncaught, exitCode >>
                 [] o = "rmtree_error" ->
                      /\ ffmpegDir' \in {ffmpegDir, "noexe"}
                      /\ prefixDirs' = prefixDirs
                      /\ DownloadFails
                 [] o = "rename_error" ->
                      /\ ffmpegDir' = "none"
                      /\ prefixDirs' = prefixDirs
                      /\ DownloadFails
    /\ UNCHANGED << stdoutDevice, stdoutEncoding, stdin, localLookup, platform, argv, inputExists, input_path,
                    ffmpeg_exe, verified, versionResult, zipExists, output_path,
                    command, childStatus, success >>

\* lines 58-62 and 71-75: delete the archive, print the check mark and
\* return True; an exception of os.remove or of the print reaches the handler
RemoveArchive ==
    /\ pc = "rmzip"
    /\ calls' = Append(calls, "remove")
    /\ \E removed \in BOOLEAN :
        /\ zipExists' = (zipExists /\ ~removed)
        /\ IF removed /\ CanPrintCheck(stdoutDevice, stdoutEncoding)
           THEN /\ dlResult' = "True"
                /\ pc' = "afterdl"
                /\ UNCHANGED << uncaught, exitCode >>
           ELSE DownloadFails
    /\ UNCHANGED << stdoutDevice, stdoutEncoding, stdin, localLookup, platform, argv, inputExists, input_path,
                    ffmpeg_exe, verified, versionResult, ffmpegDir, prefixDirs,
                    output_path, command, childStatus, success >>

\* lines 102-107 and 119-123: after download_ffmpeg returns, the local path
\* is looked up again; without it check_ffmpeg returns None and convert_video
\* returns False
AfterDownload ==
    /\ pc = "afterdl"
    /\ calls' = IF dlResult = "True" THEN Append(calls, "local_lookup") ELSE calls
    /\ IF dlResult = "True" /\ ffmpegDir = "exe"
       THEN /\ ffmpeg_exe' = "local"
            /\ success' = success
            /\ pc' = "run"
       ELSE /\ ffmpeg_exe' = "None"
            /\ success' = "False"
            /\ pc' = "exit"
    /\ UNCHANGED << stdoutDevice, stdoutEncoding, stdin, localLookup, platform, argv, inputExists, input_path,
                    verified, versionResult, ffmpegDir, prefixDirs, zipExists,
                    dlResult, output_path, command, childStatus, uncaught,
                    exitCode >>

----------------------------------------------------------------------------
(* convert_video, lines 125-162, and the end of main *)

\* Outcomes of subprocess.run(command, stderr=PIPE, text=True): the child
\* exits with status 0 or with another status and its stderr decodes; the
\* child exits and its stderr does not decode (run raises UnicodeDecodeError
\* after the child has finished); an exception at launch
ChildOutcomes ==
    {"zero", "nonzero", "zero_undecodable", "nonzero_undecodable", "launcherror"}

\* lines 125-162: name the output, build the command, run it.  True exactly
\* when run() returns with exit status 0 and the check mark is printed
\* (line 151); every other path prints the cross mark (line 155, or line 161
\* after an exception inside the try) and returns False, and a cross mark
\* that cannot be printed raises at line 161 and leaves convert_video and
\* main (traceback, exit status 1)
RunConversion ==
    /\ pc = "run"
    /\ output_path' = OutputPath(input_path, platform)
    /\ command' = Command(ExePath(ffmpeg_exe, platform), input_path,
                          OutputPath(input_path, platform))
    /\ calls' = Append(calls, "convert")
    /\ \E o \in ChildOutcomes :
        /\ childStatus' = o
        /\ IF o = "zero" /\ CanPrintCheck(stdoutDevice, stdoutEncoding)
           THEN /\ success' = "True"
                /\ pc' = "exit"
                /\ UNCHANGED << uncaught, exitCode >>
           ELSE IF CanPrintCross(stdoutDevice, stdoutEncoding)
           THEN /\ success' = "False"
                /\ pc' = "exit"
                /\ UNCHANGED << uncaught, exitCode >>
           ELSE /\ success' = success
                /\ uncaught' = "UnicodeEncodeError"
                /\ exitCode' = ProcessStatus(stdoutDevice, 1)
                /\ pc' = "done"
    /\ UNCHANGED << stdoutDevice, stdoutEncoding, stdin, localLookup, platform, argv, inputExists, input_path,
                    ffmpeg_exe, verified, versionResult, ffmpegDir, prefixDirs,
                    zipExists, dlResult >>

\* lines 189-193: prompt, then sys.exit(0 if success else 1); an exception
\* of the prompt (EOFError, RuntimeError, UnicodeDecodeError) leaves main
\* (traceback, exit status 1)
MainExit ==
    /\ pc = "exit"
    /\ IF PromptError(stdoutDevice, stdin) # "none"
       THEN /\ uncaught' = PromptError(stdoutDevice, stdin)
            /\ exitCode' = ProcessStatus(stdoutDevice, 1)
       ELSE /\ uncaught' = uncaught
            /\ exitCode' = ProcessStatus(stdoutDevice, ExitStatus(success))
    /\ pc' = "done"
    /\ UNCHANGED << stdoutDevice, stdoutEncoding, stdin, localLookup, platform, argv, inputExists, input_path,
                    ffmpeg_exe, verified, versionResult, ffmpegDir, prefixDirs,
                    zipExists, dlResult, output_path, command, childStatus,
                    success, calls >>

Next ==
    \/ MainUsage
    \/ MainClean
    \/ ConvertVideoEntry
    \/ VersionQuery
    \/ CheckLocal
    \/ DownloadUnsupported
    \/ FetchArchive
    \/ ExtractArchive
    \/ NormalizeInstall
    \/ RemoveArchive
    \/ AfterDownload
    \/ RunConversion
    \/ MainExit

Spec == Init /\ [][Next]_vars

----------------------------------------------------------------------------
(* The path functions on every string up to MaxLen.  Neither step reads   *)
(* stdin or the files beside the script.                                   *)

InitPaths ==
    /\ EnvInit
    /\ inputExists = TRUE
    /\ argv \in {<<s>> : s \in Strings}
    /\ stdin = "lines"
    /\ zipExists = FALSE
    /\ ffmpegDir = "none"
    /\ prefixDirs = [n \in DirNames |-> "none"]

\* lines 126-127 applied to the cleaned path
DeriveOutput ==
    /\ pc = "convert"
    /\ output_path' = OutputPath(input_path, platform)
    /\ pc' = "named"
    /\ UNCHANGED << stdoutDevice, stdoutEncoding, stdin, localLookup, platform, argv, inputExists, input_path, ffmpeg_exe, verified,
                    versionResult, ffmpegDir, prefixDirs, zipExists, dlResult,
                    command, childStatus, success, uncaught, exitCode, calls >>

NextPaths ==
    \/ MainClean
    \/ DeriveOutput

SpecPaths == InitPaths /\ [][NextPaths]_vars

----------------------------------------------------------------------------
(* Properties *)

Called(op) == \E i \in 1..Len(calls) : calls[i] = op

Count(op) == Cardinality({i \in 1..Len(calls) : calls[i] = op})

\* C1: the process exit code is 0 exactly when the conversion child process
\* was launched and returned exit status zero, and it is 1 in every failure
\* case: no argument, input file missing, tool missing or not installed,
\* conversion launch failure, non-zero child exit status.
C1_ExitCode ==
    /\ pc # "done" => exitCode = -1
    /\ pc = "done" =>
        /\ exitCode \in {0, 1}
        /\ exitCode = 0 <=>
               (Called("convert") /\ childStatus \in {"zero", "zero_undecodable"})
        /\ argv = << >> => exitCode = 1
        /\ (argv # << >> /\ ~inputExists) => exitCode = 1
        /\ ffmpeg_exe = "None" => exitCode = 1
        /\ childStatus \in {"nonzero", "nonzero_undecodable", "launcherror"} =>
               exitCode = 1

\* C2: every executable reference check_ffmpeg returns has answered a
\* version query successfully earlier in the run.
C2_ReferenceAnsweredVersionQuery ==
    ffmpeg_exe \in {"ffmpeg", "local"} => ffmpeg_exe \in verified

C4_MissingInputNoTool ==
    (argv # << >> /\ ~inputExists) =>
        /\ calls = << >>
        /\ command = NoCommand
        /\ success # "True"
        /\ pc = "exit" => success = "False"

C4_Witness ==
    /\ argv # << >>
    /\ ~inputExists
    /\ pc = "done"
    /\ success = "False"

\* C5: no exception raised at an external call (version query, download,
\* extraction, directory replace, conversion launch) propagates out of
\* check_ffmpeg, download_ffmpeg or convert_video: once such a call was
\* made, the only exception that can end the run is one of main's own
\* prompt at line 191 (EOFError, RuntimeError, UnicodeDecodeError).
C5_NoExceptionEscapes ==
    calls # << >> =>
        uncaught \in {"none", "EOFError", "RuntimeError", "UnicodeDecodeError"}

\* C6: whenever download_ffmpeg returns True, the executable exists at
\* get_ffmpeg_path() beneath the install directory.
C6_InstallSuccessMeansExecutable ==
    dlResult = "True" => ffmpegDir = "exe"

\* A path wrapped in a pair of double quotes or a pair of single quotes
IsQuoted(s) ==
    /\ Len(s) >= 2
    /\ s[1] \in {"\"", "'"}
    /\ s[Len(s)] = s[1]

Unquoted(s) == SubSeq(s, 2, Len(s) - 1)

\* C7: for every path p, the argument p wrapped in a pair of double quotes
\* or of single quotes is cleaned to the same input path as p itself.
C7_QuotedSameAsUnquoted ==
    (pc = "convert" /\ IsQuoted(argv[1])) =>
        input_path = CleanPath(Unquoted(argv[1]))

\* The characters that separate path components on a platform
Separators(plat) == IF plat = "Windows" THEN {"\\", "/"} ELSE {"/"}

\* p has an extension starting at index k: p[k] is a dot, no dot and no
\* separator follows it, and walking back from k a character that is
\* neither a dot nor a separator comes before any separator
ExtensionAt(p, plat, k) ==
    /\ k \in 1..Len(p)
    /\ p[k] = "."
    /\ \A i \in (k + 1)..Len(p) : p[i] # "." /\ p[i] \notin Separators(plat)
    /\ \E j \in 1..(k - 1) :
        /\ p[j] # "."
        /\ \A i \in j..(k - 1) : p[i] \notin Separators(plat)

\* C8: for an input path with an extension, the output path is the input
\* path with "_16-9" inserted immediately before the extension of its last
\* component, whatever the directory depth and whatever dots the directory
\* names hold.
C8_SuffixBeforeExtension ==
    pc = "named" =>
        \A k \in 1..Len(input_path) :
            ExtensionAt(input_path, platform, k) =>
                output_path = SubSeq(input_path, 1, k - 1) \o Suffix
                                  \o SubSeq(input_path, k, Len(input_path))

C8_Witness ==
    /\ pc = "named"
    /\ \E k \in 2..Len(input_path) :
        /\ ExtensionAt(input_path, platform, k)
        /\ \E i \in 1..(k - 1) : input_path[i] = "."
        /\ \E i \in 1..(k - 1) : input_path[i] = "/"

\* The external operations the run is made of, in program order
CallRank(op) ==
    CASE op = "version" -> 1
      [] op = "fetch"   -> 2
      [] op = "extract" -> 3
      [] op = "convert" -> 4
      [] OTHER          -> 0

Transfers == {i \in 1..Len(calls) : CallRank(calls[i]) > 0}

InProgramOrder ==
    \A i, j \in Transfers : i < j => CallRank(calls[i]) < CallRank(calls[j])

\* C9 as stated: at most one network transfer, at most one archive
\* extraction and at most one child-process execution in a run.
C9_AtMostOneChildProcess ==
    /\ Count("fetch") <= 1
    /\ Count("extract") <= 1
    /\ Count("version") + Count("convert") <= 1
    /\ InProgramOrder

\* C9 amended: at most one network transfer, at most one archive extraction,
\* at most one version-query child process and at most one conversion child
\* process in a run, made one after the other in that order: version query,
\* transfer, extraction, conversion.
C9_AtMostOneOfEachKind ==
    /\ Count("fetch") <= 1
    /\ Count("extract") <= 1
    /\ Count("version") <= 1
    /\ Count("convert") <= 1
    /\ InProgramOrder

C9_Witness ==
    /\ pc = "done"
    /\ Count("version") = 1
    /\ Count("fetch") = 1
    /\ Count("extract") = 1
    /\ Count("convert") = 1

\* C10: whenever download_ffmpeg has fetched the archive and returned, with
\* success or with failure, the archive ffmpeg.zip no longer exists.
C10_ArchiveReleased ==
    (Called("fetch") /\ dlResult # "pending") => ~zipExists

====
